---- MODULE Spec2Model ----
(***************************************************************************)
(* Table-driven CRC engine of mycrc: the Algorithm descriptor              *)
(* (src/src/algorithm.rs) and the CRC accumulator (src/src/crc.rs).        *)
(*                                                                         *)
(* An unsigned integer of the macro's type $t is a sequence of 16-bit      *)
(* digits (numbers in 0..65535), most significant digit first, one digit   *)
(* per 16 bits of $t; a u8 is a number in 0..255.  The u16 and the u32     *)
(* instances of the macros are modelled by the same definitions: the width *)
(* is the length of the word.                                              *)
(***************************************************************************)
EXTENDS Integers, Sequences, FiniteSets, TLC

(***************************************************************************)
(* Machine words.                                                          *)
(***************************************************************************)

\* a ^ b on numbers of n bits.
RECURSIVE XorBits(_, _, _)
XorBits(a, b, n) ==
    IF n = 0 THEN 0
    ELSE ((a + b) % 2) + 2 * XorBits(a \div 2, b \div 2, n - 1)

\* The n bits of a in the opposite order.
RECURSIVE RevBits(_, _)
RevBits(a, n) ==
    IF n = 0 THEN 0
    ELSE ((a % 2) * (2 ^ (n - 1))) + RevBits(a \div 2, n - 1)

\* a ^ b and reverse_bits on u8, tabulated once.
Xor8 == [a \in 0..255 |-> [b \in 0..255 |-> XorBits(a, b, 8)]]
Rev8 == [a \in 0..255 |-> RevBits(a, 8)]

\* u8::reverse_bits, and a ^ b on u8 (the table index of calc_bytes_with_values)
reverse_bits_u8(b) == Rev8[b]
XorByte(a, b) == Xor8[a][b]

\* a ^ b and reverse_bits on one 16-bit digit.
XorDigit(a, b) == (256 * Xor8[a \div 256][b \div 256]) + Xor8[a % 256][b % 256]
RevDigit(a) == (256 * Rev8[a % 256]) + Rev8[a \div 256]

\* $t::reverse_bits
reverse_bits(v) ==
    LET n == Len(v)
    IN  SubSeq([i \in 1..n |-> RevDigit(v[n + 1 - i])], 1, n)

\* a ^ b
Xor(a, b) ==
    LET n == Len(a)
    IN  SubSeq([i \in 1..n |-> XorDigit(a[i], b[i])], 1, n)

\* value >> 1, value >> 8, value << 8 (bits shifted out are lost).
Shr1(v) ==
    LET n == Len(v)
    IN  SubSeq([i \in 1..n |->
                 (v[i] \div 2) + (IF i > 1 THEN (v[i - 1] % 2) * 32768 ELSE 0)], 1, n)

Shr8(v) ==
    LET n == Len(v)
    IN  SubSeq([i \in 1..n |->
                 (v[i] \div 256) + (IF i > 1 THEN (v[i - 1] % 256) * 256 ELSE 0)], 1, n)

Shl8(v) ==
    LET n == Len(v)
    IN  SubSeq([i \in 1..n |->
                 ((v[i] % 256) * 256) + (IF i < n THEN v[i + 1] \div 256 ELSE 0)], 1, n)

\* value & 1
LowBit(v) == v[Len(v)] % 2

\* (value as usize) & 0xFF, and (value >> (size_of::<$t>() * 8 - 8)) as usize
LowByte(v) == v[Len(v)] % 256
TopByte(v) == v[1] \div 256

\* byte as $t, for a $t of n digits
ByteAs(n, b) == SubSeq([i \in 1..n |-> IF i = n THEN b ELSE 0], 1, n)

\* A word literal from its bytes, most significant first.
RECURSIVE WordOf(_)
WordOf(bs) ==
    IF bs = << >> THEN << >>
    ELSE <<(256 * bs[1]) + bs[2]>> \o WordOf(SubSeq(bs, 3, Len(bs)))

\* n.to_be_bytes(), n.to_le_bytes()
RECURSIVE to_be_bytes(_)
to_be_bytes(n) ==
    IF n = << >> THEN << >>
    ELSE <<Head(n) \div 256, Head(n) % 256>> \o to_be_bytes(Tail(n))

RECURSIVE to_le_bytes(_)
to_le_bytes(n) ==
    IF n = << >> THEN << >>
    ELSE to_le_bytes(Tail(n)) \o <<Head(n) % 256, Head(n) \div 256>>

(***************************************************************************)
(* Algorithm<$t> (algorithm.rs).  host is the byte order of the target the *)
(* crate is compiled for, which decides n.to_ne_bytes().                   *)
(***************************************************************************)

Endian == {"Big", "Little", "Native"}

to_endian_bytes(host, n, endian) ==
    CASE endian = "Big" -> to_be_bytes(n)
      [] endian = "Little" -> to_le_bytes(n)
      [] endian = "Native" ->
            IF host = "Big" THEN to_be_bytes(n) ELSE to_le_bytes(n)

initialize(init, refin) == IF refin THEN reverse_bits(init) ELSE init

\* optional_reflection that looks at refout alone.
optional_reflection_by_refout(refin, refout, value) ==
    IF refout THEN reverse_bits(value) ELSE value

optional_reflection(refin, refout, value) ==
    IF refin # refout THEN reverse_bits(value) ELSE value

\* finalize that leaves out `^ xorout`.
finalize_without_xorout(refin, refout, xorout, value) ==
    optional_reflection(refin, refout, value)

finalize(refin, refout, xorout, value) ==
    Xor(optional_reflection(refin, refout, value), xorout)

finalize_to_endian_bytes(host, endian, refin, refout, xorout, value) ==
    to_endian_bytes(host, finalize(refin, refout, xorout, value), endian)

\* One pass of the `while i < 8` loop of calc_byte_with_reciprocal_poly.
ReciprocalStep(reciprocal_poly, value) ==
    IF LowBit(value) = 0 THEN Shr1(value)
    ELSE Xor(Shr1(value), reciprocal_poly)

RECURSIVE ReciprocalLoop(_, _, _)
ReciprocalLoop(reciprocal_poly, value, i) ==
    IF i < 8
    THEN ReciprocalLoop(reciprocal_poly, ReciprocalStep(reciprocal_poly, value), i + 1)
    ELSE value

\* calc_byte_with_reciprocal_poly that never reverses the value it returns.
calc_byte_unreversed(reciprocal_poly, refin, byte) ==
    LET w == Len(reciprocal_poly)
        value0 == IF refin THEN ByteAs(w, byte)
                  ELSE ByteAs(w, reverse_bits_u8(byte))
    IN  ReciprocalLoop(reciprocal_poly, value0, 0)

calc_byte_with_reciprocal_poly(reciprocal_poly, refin, byte) ==
    LET w == Len(reciprocal_poly)
        value0 == IF refin THEN ByteAs(w, byte)
                  ELSE ByteAs(w, reverse_bits_u8(byte))
        value == ReciprocalLoop(reciprocal_poly, value0, 0)
    IN  IF refin THEN value ELSE reverse_bits(value)

create_table(poly, refin) ==
    LET reciprocal_poly == reverse_bits(poly)
    IN  [i \in 0..255 |-> calc_byte_with_reciprocal_poly(reciprocal_poly, refin, i)]

\* One pass of either `while i < bytes.len()` loop of calc_bytes_with_values.
CalcStep(refin, value, byte, table) ==
    IF refin
    THEN Xor(table[XorByte(LowByte(value), byte)], Shr8(value))
    ELSE Xor(table[XorByte(TopByte(value), byte)], Shl8(value))

RECURSIVE calc_bytes_with_values(_, _, _, _)
calc_bytes_with_values(refin, value, bytes, table) ==
    IF bytes = << >> THEN value
    ELSE calc_bytes_with_values(refin, CalcStep(refin, value, Head(bytes), table),
                                Tail(bytes), table)

\* Algorithm::new that takes the finalized value for the residue.
Algorithm_new_finalized_residue(host, endian, poly, init, refin, refout, xorout) ==
    LET init_value == initialize(init, refin)
        zero_bytes_checksum ==
            finalize_to_endian_bytes(host, "Little", refin, refout, xorout, init_value)
        table == create_table(poly, refin)
        calc_value ==
            calc_bytes_with_values(refin, init_value, zero_bytes_checksum, table)
        residue == finalize(refin, refout, xorout, calc_value)
    IN  << [endian |-> endian, poly |-> poly, init |-> init, refin |-> refin,
            refout |-> refout, xorout |-> xorout, residue |-> residue],
           init_value, table >>

Algorithm_new(host, endian, poly, init, refin, refout, xorout) ==
    LET init_value == initialize(init, refin)
        zero_bytes_checksum ==
            finalize_to_endian_bytes(host, "Little", refin, refout, xorout, init_value)
        table == create_table(poly, refin)
        calc_value ==
            calc_bytes_with_values(refin, init_value, zero_bytes_checksum, table)
        residue == optional_reflection(refin, refout, calc_value)
    IN  << [endian |-> endian, poly |-> poly, init |-> init, refin |-> refin,
            refout |-> refout, xorout |-> xorout, residue |-> residue],
           init_value, table >>

(***************************************************************************)
(* CRC<$t> (crc.rs): the methods as functions of the engine `self`.  A     *)
(* `&mut self` method that returns a value yields <<self after, value>>.   *)
(***************************************************************************)

CRC_new(host, endian, poly, init, refin, refout, xorout) ==
    LET r == Algorithm_new(host, endian, poly, init, refin, refout, xorout)
    IN  [algorithm |-> r[1], value |-> r[2], table |-> r[3]]

\* from_algorithm that takes init for the register without reflecting it.
CRC_from_algorithm_unreflected(algorithm) ==
    [algorithm |-> algorithm,
     value |-> algorithm.init,
     table |-> create_table(algorithm.poly, algorithm.refin)]

\* from_algorithm that derives the residue again, as CRC::new does.
CRC_from_algorithm_rederiving(algorithm) ==
    LET r == Algorithm_new("Little", algorithm.endian, algorithm.poly, algorithm.init,
                           algorithm.refin, algorithm.refout, algorithm.xorout)
    IN  [algorithm |-> r[1], value |-> r[2], table |-> r[3]]

CRC_from_algorithm(algorithm) ==
    [algorithm |-> algorithm,
     value |-> initialize(algorithm.init, algorithm.refin),
     table |-> create_table(algorithm.poly, algorithm.refin)]

\* initialize that builds the engine again from its six parameters, as
\* CRC::new does, instead of resetting the register only.
CRC_initialize_rebuilding(self) ==
    CRC_from_algorithm_rederiving(self.algorithm)

CRC_initialize(self) ==
    [self EXCEPT !.value = initialize(self.algorithm.init, self.algorithm.refin)]

\* calc_bytes that folds from the initialized register, not from self.value.
CRC_calc_bytes_restarting(self, bytes) ==
    [self EXCEPT !.value =
        calc_bytes_with_values(
            self.algorithm.refin, initialize(self.algorithm.init, self.algorithm.refin),
            bytes, self.table)]

CRC_calc_bytes(self, bytes) ==
    [self EXCEPT !.value =
        calc_bytes_with_values(self.algorithm.refin, self.value, bytes, self.table)]

CRC_optional_reflection(self) ==
    optional_reflection(self.algorithm.refin, self.algorithm.refout, self.value)

CRC_finalize(self) ==
    finalize(self.algorithm.refin, self.algorithm.refout, self.algorithm.xorout,
             self.value)

CRC_finalize_to_endian_bytes(host, self) ==
    finalize_to_endian_bytes(host, self.algorithm.endian, self.algorithm.refin,
                             self.algorithm.refout, self.algorithm.xorout, self.value)

\* checksum that does not initialize the register first.
CRC_checksum_continuing(self, bytes) ==
    LET s == CRC_calc_bytes(self, bytes)
    IN  <<s, CRC_finalize(s)>>

\* is_error_free that compares the finalized value with the residue.
CRC_is_error_free_finalized(self) ==
    IF CRC_finalize(self) = self.algorithm.residue THEN TRUE ELSE FALSE

\* The value of a chain `self.initialize().calc_bytes(bytes).method()`:
\* the engine the chain leaves and what its last method returns.
Chain(s, method(_)) == <<s, method(s)>>

CRC_checksum(self, bytes) ==
    Chain(CRC_calc_bytes(CRC_initialize(self), bytes), CRC_finalize)

CRC_checksum_to_endian_bytes(host, self, bytes) ==
    LET finalize_to_endian_bytes_on(s) == CRC_finalize_to_endian_bytes(host, s)
    IN  Chain(CRC_calc_bytes(CRC_initialize(self), bytes), finalize_to_endian_bytes_on)

CRC_is_error_free(self) ==
    IF CRC_optional_reflection(self) = self.algorithm.residue THEN TRUE ELSE FALSE

CRC_is_error_free_bytes(self, bytes) ==
    Chain(CRC_calc_bytes(CRC_initialize(self), bytes), CRC_is_error_free)

(***************************************************************************)
(* The Algorithm<u32> constants, the message and the expected values of    *)
(* the tests of crc.rs.                                                    *)
(***************************************************************************)

CHECK_BYTES == <<\h31, \h32, \h33, \h34, \h35, \h36, \h37, \h38, \h39>>

CRC_32_AIXM ==
    [endian |-> "Native", poly |-> WordOf(<<\h81, \h41, \h41, \hab>>),
     init |-> WordOf(<<\h00, \h00, \h00, \h00>>), refin |-> FALSE, refout |-> FALSE,
     xorout |-> WordOf(<<\h00, \h00, \h00, \h00>>),
     residue |-> WordOf(<<\h00, \h00, \h00, \h00>>)]

CRC_32_AUTOSAR ==
    [endian |-> "Little", poly |-> WordOf(<<\hf4, \hac, \hfb, \h13>>),
     init |-> WordOf(<<\hff, \hff, \hff, \hff>>), refin |-> TRUE, refout |-> TRUE,
     xorout |-> WordOf(<<\hff, \hff, \hff, \hff>>),
     residue |-> WordOf(<<\h90, \h4c, \hdd, \hbf>>)]

CRC_32_BASE91_D ==
    [endian |-> "Little", poly |-> WordOf(<<\ha8, \h33, \h98, \h2b>>),
     init |-> WordOf(<<\hff, \hff, \hff, \hff>>), refin |-> TRUE, refout |-> TRUE,
     xorout |-> WordOf(<<\hff, \hff, \hff, \hff>>),
     residue |-> WordOf(<<\h45, \h27, \h05, \h51>>)]

CRC_32_BZIP2 ==
    [endian |-> "Big", poly |-> WordOf(<<\h04, \hc1, \h1d, \hb7>>),
     init |-> WordOf(<<\hff, \hff, \hff, \hff>>), refin |-> FALSE, refout |-> FALSE,
     xorout |-> WordOf(<<\hff, \hff, \hff, \hff>>),
     residue |-> WordOf(<<\hc7, \h04, \hdd, \h7b>>)]

CRC_32_CD_ROM_EDC ==
    [endian |-> "Native", poly |-> WordOf(<<\h80, \h01, \h80, \h1b>>),
     init |-> WordOf(<<\h00, \h00, \h00, \h00>>), refin |-> TRUE, refout |-> TRUE,
     xorout |-> WordOf(<<\h00, \h00, \h00, \h00>>),
     residue |-> WordOf(<<\h00, \h00, \h00, \h00>>)]

CRC_32_CKSUM ==
    [endian |-> "Big", poly |-> WordOf(<<\h04, \hc1, \h1d, \hb7>>),
     init |-> WordOf(<<\h00, \h00, \h00, \h00>>), refin |-> FALSE, refout |-> FALSE,
     xorout |-> WordOf(<<\hff, \hff, \hff, \hff>>),
     residue |-> WordOf(<<\hc7, \h04, \hdd, \h7b>>)]

CRC_32_ISCSI ==
    [endian |-> "Little", poly |-> WordOf(<<\h1e, \hdc, \h6f, \h41>>),
     init |-> WordOf(<<\hff, \hff, \hff, \hff>>), refin |-> TRUE, refout |-> TRUE,
     xorout |-> WordOf(<<\hff, \hff, \hff, \hff>>),
     residue |-> WordOf(<<\hb7, \h98, \hb4, \h38>>)]

CRC_32_ISO_HDLC ==
    [endian |-> "Little", poly |-> WordOf(<<\h04, \hc1, \h1d, \hb7>>),
     init |-> WordOf(<<\hff, \hff, \hff, \hff>>), refin |-> TRUE, refout |-> TRUE,
     xorout |-> WordOf(<<\hff, \hff, \hff, \hff>>),
     residue |-> WordOf(<<\hde, \hbb, \h20, \he3>>)]

CRC_32_JAMCRC ==
    [endian |-> "Native", poly |-> WordOf(<<\h04, \hc1, \h1d, \hb7>>),
     init |-> WordOf(<<\hff, \hff, \hff, \hff>>), refin |-> TRUE, refout |-> TRUE,
     xorout |-> WordOf(<<\h00, \h00, \h00, \h00>>),
     residue |-> WordOf(<<\h00, \h00, \h00, \h00>>)]

CRC_32_MPEG_2 ==
    [endian |-> "Native", poly |-> WordOf(<<\h04, \hc1, \h1d, \hb7>>),
     init |-> WordOf(<<\hff, \hff, \hff, \hff>>), refin |-> FALSE, refout |-> FALSE,
     xorout |-> WordOf(<<\h00, \h00, \h00, \h00>>),
     residue |-> WordOf(<<\h00, \h00, \h00, \h00>>)]

CRC_32_XFER ==
    [endian |-> "Native", poly |-> WordOf(<<\h00, \h00, \h00, \haf>>),
     init |-> WordOf(<<\h00, \h00, \h00, \h00>>), refin |-> FALSE, refout |-> FALSE,
     xorout |-> WordOf(<<\h00, \h00, \h00, \h00>>),
     residue |-> WordOf(<<\h00, \h00, \h00, \h00>>)]

\* tests::check: (Algorithm, check)
check_algos ==
    {<<CRC_32_AIXM, WordOf(<<\h30, \h10, \hbf, \h7f>>)>>,
     <<CRC_32_AUTOSAR, WordOf(<<\h16, \h97, \hd0, \h6a>>)>>,
     <<CRC_32_BASE91_D, WordOf(<<\h87, \h31, \h55, \h76>>)>>,
     <<CRC_32_BZIP2, WordOf(<<\hfc, \h89, \h19, \h18>>)>>,
     <<CRC_32_CD_ROM_EDC, WordOf(<<\h6e, \hc2, \hed, \hc4>>)>>,
     <<CRC_32_CKSUM, WordOf(<<\h76, \h5e, \h76, \h80>>)>>,
     <<CRC_32_ISCSI, WordOf(<<\he3, \h06, \h92, \h83>>)>>,
     <<CRC_32_ISO_HDLC, WordOf(<<\hcb, \hf4, \h39, \h26>>)>>,
     <<CRC_32_JAMCRC, WordOf(<<\h34, \h0b, \hc6, \hd9>>)>>,
     <<CRC_32_MPEG_2, WordOf(<<\h03, \h76, \he6, \he7>>)>>,
     <<CRC_32_XFER, WordOf(<<\hbd, \h0b, \he3, \h38>>)>>}

\* tests::residue: (Algorithm, check)
residue_algos ==
    {<<CRC_32_AUTOSAR, WordOf(<<\h16, \h97, \hd0, \h6a>>)>>,
     <<CRC_32_BASE91_D, WordOf(<<\h87, \h31, \h55, \h76>>)>>,
     <<CRC_32_BZIP2, WordOf(<<\hfc, \h89, \h19, \h18>>)>>,
     <<CRC_32_CKSUM, WordOf(<<\h76, \h5e, \h76, \h80>>)>>,
     <<CRC_32_ISCSI, WordOf(<<\he3, \h06, \h92, \h83>>)>>,
     <<CRC_32_ISO_HDLC, WordOf(<<\hcb, \hf4, \h39, \h26>>)>>}

\* tests::check_refin_true_table and tests::check_refin_false_table: the
\* expected tables, entry i of the test at index i + 1.
crc32c_table ==
    <<
       <<0, 0>>, <<62059, 33539>>, <<57659, 28919>>, <<4944, 62452>>, <<51098, 38687>>, <<13809, 5148>>,
       <<9889, 59368>>, <<54474, 25835>>, <<35545, 22735>>, <<30898, 56268>>, <<27618, 10296>>, <<39305, 43835>>,
       <<19779, 53200>>, <<48936, 19667>>, <<44152, 48935>>, <<24083, 15396>>, <<4190, 51055>>, <<57909, 17516>>,
       <<61797, 47000>>, <<782, 13467>>, <<55236, 20592>>, <<9647, 54131>>, <<14079, 8327>>, <<50324, 41860>>,
       <<39559, 40864>>, <<26860, 7331>>, <<31676, 61271>>, <<35287, 27732>>, <<23837, 2239>>, <<44918, 35772>>,
       <<48166, 30792>>, <<20045, 64331>>, <<8381, 36574>>, <<53974, 3549>>, <<49542, 65065>>, <<13293, 32042>>,
       <<59175, 6593>>, <<5452, 39618>>, <<1564, 26934>>, <<62583, 59957>>, <<43620, 54801>>, <<22543, 21778>>,
       <<19295, 42726>>, <<47412, 9701>>, <<28158, 16654>>, <<40853, 49677>>, <<36037, 12793>>, <<32430, 45818>>,
       <<12515, 18865>>, <<49800, 51890>>, <<53720, 14662>>, <<9139, 47685>>, <<63353, 57006>>, <<1298, 23981>>,
       <<5698, 44633>>, <<58409, 11610>>, <<47674, 4478>>, <<18513, 37501>>, <<23297, 24969>>, <<43370, 57994>>,
       <<32160, 34401>>, <<36811, 1378>>, <<40091, 63126>>, <<28400, 30101>>, <<16763, 7612>>, <<45840, 40639>>,
       <<41024, 27979>>, <<21035, 61000>>, <<34529, 35491>>, <<29834, 2464>>, <<26586, 64084>>, <<38321, 31063>>,
       <<52130, 17779>>, <<14793, 50800>>, <<10905, 13700>>, <<55538, 46727>>, <<3128, 53868>>, <<65107, 20847>>,
       <<60675, 41627>>, <<8040, 8600>>, <<20773, 56019>>, <<41806, 22992>>, <<45086, 43556>>, <<17013, 10535>>,
       <<38591, 19916>>, <<25812, 52943>>, <<30596, 15675>>, <<34287, 48696>>, <<56316, 33308>>, <<10647, 287>>,
       <<15047, 62187>>, <<51372, 29160>>, <<7270, 5379>>, <<60941, 38400>>, <<64861, 26100>>, <<3894, 59127>>,
       <<25030, 37730>>, <<37805, 4193>>, <<33021, 58261>>, <<29334, 24726>>, <<42588, 1149>>, <<21559, 34686>>,
       <<18279, 29834>>, <<46348, 63369>>, <<60191, 52141>>, <<6516, 18606>>, <<2596, 47962>>, <<63567, 14425>>,
       <<11397, 23730>>, <<57070, 57265>>, <<52670, 11333>>, <<16341, 44870>>, <<29080, 21517>>, <<33779, 55054>>,
       <<37027, 9466>>, <<25288, 43001>>, <<46594, 49938>>, <<17513, 16401>>, <<22329, 46053>>, <<42322, 12518>>,
       <<64321, 3266>>, <<2346, 36801>>, <<6778, 31797>>, <<59409, 65334>>, <<15579, 39901>>, <<52912, 6366>>,
       <<56800, 60202>>, <<12171, 26665>>, <<33526, 15224>>, <<28829, 47227>>, <<25549, 19343>>, <<37286, 51340>>,
       <<17772, 44135>>, <<46855, 12132>>, <<42071, 56464>>, <<22076, 24467>>, <<2095, 25527>>, <<64068, 57524>>,
       <<59668, 4928>>, <<7039, 36931>>, <<53173, 62632>>, <<15838, 30635>>, <<11918, 33887>>, <<56549, 1884>>,
       <<37544, 64535>>, <<24771, 32532>>, <<29587, 36064>>, <<33272, 4067>>, <<21810, 27400>>, <<42841, 59403>>,
       <<46089, 7167>>, <<18018, 39164>>, <<6257, 42200>>, <<59930, 10203>>, <<63818, 54319>>, <<2849, 22316>>,
       <<57323, 13255>>, <<11648, 45252>>, <<16080, 17200>>, <<52411, 49203>>, <<41547, 46502>>, <<20512, 13989>>,
       <<17264, 50513>>, <<45339, 18002>>, <<26065, 8889>>, <<38842, 41402>>, <<34026, 21070>>, <<30337, 53581>>,
       <<10386, 60777>>, <<56057, 28266>>, <<51625, 40350>>, <<15298, 7837>>, <<61192, 31350>>, <<7523, 63861>>,
       <<3635, 2689>>, <<64600, 35202>>, <<45589, 29385>>, <<16510, 61898>>, <<21294, 574>>, <<41285, 33085>>,
       <<30095, 58838>>, <<34788, 26325>>, <<38068, 38177>>, <<26335, 5666>>, <<14540, 10758>>, <<51879, 43269>>,
       <<55799, 23281>>, <<11164, 55794>>, <<65366, 48409>>, <<3389, 15898>>, <<7789, 52718>>, <<60422, 20205>>,
       <<50061, 9924>>, <<12774, 42439>>, <<8886, 22067>>, <<53469, 54576>>, <<1047, 45531>>, <<63100, 13016>>,
       <<58668, 49452>>, <<5959, 16943>>, <<18772, 32267>>, <<47935, 64776>>, <<43119, 3836>>, <<23044, 36351>>,
       <<36558, 59668>>, <<31909, 27159>>, <<28661, 39395>>, <<40350, 6880>>, <<54227, 57771>>, <<8632, 25256>>,
       <<13032, 37212>>, <<49283, 4703>>, <<5193, 30388>>, <<58914, 62903>>, <<62834, 1603>>, <<1817, 34112>>,
       <<22794, 47460>>, <<43873, 14951>>, <<47153, 51603>>, <<19034, 19088>>, <<40592, 11899>>, <<27899, 44408>>,
       <<32683, 24204>>, <<36288, 56719>>, <<58160, 43034>>, <<4443, 11033>>, <<523, 55533>>, <<61536, 23534>>,
       <<9386, 16133>>, <<54977, 48134>>, <<50577, 20466>>, <<14330, 52465>>, <<27113, 61653>>, <<39810, 29654>>,
       <<35026, 32802>>, <<31417, 801>>, <<44659, 26570>>, <<23576, 58569>>, <<20296, 5949>>, <<48419, 37950>>,
       <<62318, 28533>>, <<261, 60534>>, <<4693, 8066>>, <<57406, 40065>>, <<13556, 63594>>, <<50847, 31593>>,
       <<54735, 34973>>, <<10148, 2974>>, <<31159, 14266>>, <<35804, 46265>>, <<39052, 18253>>, <<27367, 50254>>,
       <<48685, 41125>>, <<19526, 9126>>, <<24342, 53330>>, <<44413, 21329>>
    >>

crc32_table ==
    <<
       <<0, 0>>, <<1217, 7607>>, <<2434, 15214>>, <<3395, 9945>>, <<4868, 30428>>, <<6085, 27499>>,
       <<6790, 19890>>, <<7751, 20485>>, <<9736, 60856>>, <<8905, 61455>>, <<12170, 54998>>, <<11083, 52065>>,
       <<13580, 39780>>, <<12749, 34515>>, <<15502, 40970>>, <<14415, 48573>>, <<19473, 56176>>, <<18640, 50887>>,
       <<17811, 57374>>, <<16722, 64937>>, <<24341, 44460>>, <<23508, 45083>>, <<22167, 38594>>, <<21078, 35701>>,
       <<27161, 14024>>, <<28376, 11135>>, <<25499, 3494>>, <<26458, 4113>>, <<31005, 16404>>, <<32220, 23971>>,
       <<28831, 31610>>, <<29790, 26317>>, <<38947, 46816>>, <<40162, 43863>>, <<37281, 36238>>, <<38240, 36921>>,
       <<35623, 49212>>, <<36838, 56715>>, <<33445, 64338>>, <<34404, 59109>>, <<48683, 23384>>, <<47850, 18159>>,
       <<47017, 24630>>, <<45928, 32129>>, <<44335, 11652>>, <<43502, 12339>>, <<42157, 5866>>, <<41068, 2909>>,
       <<54322, 28048>>, <<53491, 28711>>, <<56752, 22270>>, <<55665, 19273>>, <<50998, 6988>>, <<50167, 1787>>,
       <<52916, 8226>>, <<51829, 15765>>, <<62010, 32808>>, <<63227, 40351>>, <<64440, 47942>>, <<65401, 42737>>,
       <<57662, 63220>>, <<58879, 60227>>, <<59580, 52634>>, <<60541, 53293>>, <<13446, 28791>>, <<12359, 28096>>,
       <<15620, 19225>>, <<14789, 22190>>, <<10114, 1707>>, <<9027, 6940>>, <<11776, 15813>>, <<10945, 8306>>,
       <<4750, 40399>>, <<5711, 32888>>, <<6924, 42657>>, <<8141, 47894>>, <<394, 60179>>, <<1355, 63140>>,
       <<2056, 53373>>, <<3273, 52682>>, <<30871, 43783>>, <<31830, 46768>>, <<28949, 36969>>, <<30164, 36318>>,
       <<27539, 56795>>, <<28498, 49260>>, <<25105, 59061>>, <<26320, 64258>>, <<24223, 18111>>, <<23134, 23304>>,
       <<22301, 32209>>, <<21468, 24678>>, <<19867, 12387>>, <<18778, 11732>>, <<17433, 2829>>, <<16600, 5818>>,
       <<44197, 50839>>, <<43108, 56096>>, <<42279, 65017>>, <<41446, 57422>>, <<49057, 45131>>, <<47968, 44540>>,
       <<46627, 35621>>, <<45794, 38546>>, <<35501, 11055>>, <<36460, 13976>>, <<33583, 4161>>, <<34798, 3574>>,
       <<39337, 24051>>, <<40296, 16452>>, <<36907, 26269>>, <<38122, 31530>>, <<57524, 7655>>, <<58485, 80>>,
       <<59702, 9865>>, <<60919, 15166>>, <<62384, 27451>>, <<63345, 30348>>, <<64050, 20565>>, <<65267, 19938>>,
       <<50876, 61535>>, <<49789, 60904>>, <<53054, 52017>>, <<52223, 54918>>, <<54712, 34435>>, <<53625, 39732>>,
       <<56378, 48621>>, <<55547, 41050>>, <<26892, 57582>>, <<28109, 64857>>, <<24718, 56192>>, <<25679, 50743>>,
       <<31240, 38450>>, <<32457, 35717>>, <<29578, 44380>>, <<30539, 45291>>, <<20228, 3414>>, <<19397, 4321>>,
       <<18054, 13880>>, <<16967, 11151>>, <<23552, 31626>>, <<22721, 26173>>, <<21890, 16612>>, <<20803, 23891>>,
       <<9501, 15262>>, <<8668, 9769>>, <<11423, 240>>, <<10334, 7495>>, <<13849, 19778>>, <<13016, 20725>>,
       <<16283, 30252>>, <<15194, 27547>>, <<789, 54822>>, <<2004, 52113>>, <<2711, 60744>>, <<3670, 61695>>,
       <<4113, 41210>>, <<5328, 48461>>, <<6547, 39828>>, <<7506, 34339>>, <<61743, 22030>>, <<62958, 19385>>,
       <<63661, 28000>>, <<64620, 28887>>, <<57899, 8402>>, <<59114, 15717>>, <<60329, 7100>>, <<61288, 1547>>,
       <<55079, 48054>>, <<54246, 42497>>, <<56997, 32984>>, <<55908, 40303>>, <<50211, 52586>>, <<49378, 53469>>,
       <<52641, 62980>>, <<51552, 60339>>, <<48446, 36222>>, <<47615, 37065>>, <<46268, 46608>>, <<45181, 43943>>,
       <<44602, 64418>>, <<43771, 58901>>, <<42936, 49356>>, <<41849, 56699>>, <<39734, 24774>>, <<40951, 32113>>,
       <<37556, 23464>>, <<38517, 17951>>, <<34866, 5658>>, <<36083, 2989>>, <<33200, 11636>>, <<34161, 12483>>,
       <<23946, 37017>>, <<22859, 36142>>, <<21512, 44023>>, <<20681, 46656>>, <<20110, 58949>>, <<19023, 64498>>,
       <<18188, 56619>>, <<17357, 49308>>, <<31618, 32033>>, <<32579, 24726>>, <<29184, 17999>>, <<30401, 23544>>,
       <<26758, 3069>>, <<27719, 5706>>, <<24836, 12435>>, <<26053, 11556>>, <<4507, 19433>>, <<5466, 22110>>,
       <<6169, 28807>>, <<7384, 27952>>, <<671, 15669>>, <<1630, 8322>>, <<2845, 1627>>, <<4060, 7148>>,
       <<14227, 42577>>, <<13138, 48102>>, <<15889, 40255>>, <<15056, 32904>>, <<9367, 53389>>, <<8278, 52538>>,
       <<11541, 60387>>, <<10708, 63060>>, <<50601, 9849>>, <<49512, 15310>>, <<52267, 7447>>, <<51434, 160>>,
       <<54957, 20645>>, <<53868, 19730>>, <<57135, 27595>>, <<56302, 30332>>, <<58273, 52161>>, <<59232, 54902>>,
       <<59939, 61615>>, <<61154, 60696>>, <<61605, 48413>>, <<62564, 41130>>, <<63783, 34419>>, <<64998, 39876>>,
       <<35256, 64777>>, <<36217, 57534>>, <<32826, 50791>>, <<34043, 56272>>, <<39612, 35797>>, <<40573, 38498>>,
       <<37694, 45243>>, <<38911, 44300>>, <<44976, 4273>>, <<43889, 3334>>, <<42546, 11231>>, <<41715, 13928>>,
       <<48308, 26221>>, <<47221, 31706>>, <<46390, 23811>>, <<45559, 16564>>
    >>

(***************************************************************************)
(* Inputs.                                                                 *)
(***************************************************************************)

\* Longest message given to a one-shot call, longest slice given to one
\* calc_bytes call, and most bytes the register has taken in since it was
\* last initialized when calc_bytes or a read-only method is called.
MaxLen == 2
MaxChunk == 1
MaxFed == 2

ByteSet == {\h00, \h81}

BytesUpTo(n) == UNION {[1..k -> ByteSet] : k \in 0..n}

Messages == BytesUpTo(MaxLen)
Chunks == BytesUpTo(MaxChunk)

\* u16 parameters of CRC::<u16>::new.
PolySet == {WordOf(<<\h10, \h21>>), WordOf(<<\h80, \h05>>)}
InitSet == {WordOf(<<\h00, \h00>>), WordOf(<<\h1d, \h0f>>)}
XoroutSet == {WordOf(<<\h00, \h00>>), WordOf(<<\h00, \h01>>)}

\* The Algorithm constants of the tests.
Presets == {a[1] : a \in check_algos}

\* The residues a caller of from_algorithm may write into an Algorithm that
\* CRC::new derived: the derived one, or one that differs from it in a bit.
AssertedResidues(algorithm) ==
    {algorithm.residue,
     Xor(algorithm.residue, ByteAs(Len(algorithm.residue), 1))}

\* bytes with bit k flipped, bits counted from 1 at the top bit of bytes[1].
FlipBit(bytes, k) ==
    LET i == ((k - 1) \div 8) + 1
        mask == 2 ^ (7 - ((k - 1) % 8))
    IN  [bytes EXCEPT ![i] = Xor8[@][mask]]

(***************************************************************************)
(* State.                                                                  *)
(*   host    byte order of the compilation target                          *)
(*   crc     the engine: algorithm, value, table                           *)
(*   out     the last call: its name, its argument, what it returned,      *)
(*           whether the register differed from the initialized value when *)
(*           it was made (dirty), and for is_error_free_bytes on a message *)
(*           followed by a checksum the message (msg) and whether a bit    *)
(*           was flipped (frame)                                           *)
(*   start   the register when the current run of calc_bytes calls began   *)
(*   fed     the bytes those calls were given, in order                    *)
(***************************************************************************)
VARIABLES host, crc, out, start, fed

vars == <<host, crc, out, start, fed>>

\* The record of a call made on the engine `self`.
Called(self, op, arg, ret, frame, msg) ==
    [op |-> op, arg |-> arg, ret |-> ret, frame |-> frame, msg |-> msg,
     dirty |-> self.value # initialize(self.algorithm.init, self.algorithm.refin)]

Call(op, arg, ret) == Called(crc, op, arg, ret, "none", << >>)

\* The record of a constructor call.
Constructed(op, arg) ==
    [op |-> op, arg |-> arg, ret |-> << >>, frame |-> "none", msg |-> << >>,
     dirty |-> FALSE]

\* to_endian_bytes reads host under Endian::Native only: both targets are
\* explored for Native, one for Big and Little.
Init ==
    /\ host \in {"Big", "Little"}
    /\ \E endian \in Endian, poly \in PolySet, init \in InitSet,
          refin \in BOOLEAN, refout \in BOOLEAN, xorout \in XoroutSet :
          /\ endian # "Native" => host = "Little"
          /\ crc = CRC_new(host, endian, poly, init, refin, refout, xorout)
    /\ out = Constructed("new", << >>)
    /\ start = crc.value
    /\ fed = << >>

\* No call has been made on the engine since its construction.
Fresh == out.op \in {"new", "from_algorithm"}

\* CRC::from_algorithm on the Algorithm of the engine CRC::new built, as it is
\* or with another residue written into it.
FromAlgorithm ==
    /\ out.op = "new"
    /\ \E residue \in AssertedResidues(crc.algorithm) :
          LET algorithm == [crc.algorithm EXCEPT !.residue = residue]
          IN  /\ crc' = CRC_from_algorithm(algorithm)
              /\ out' = Constructed("from_algorithm", algorithm)
    /\ start' = crc'.value
    /\ fed' = << >>
    /\ UNCHANGED host

\* CRC::new on the six parameters of the Algorithm an engine was made from.
New ==
    /\ out.op = "from_algorithm"
    /\ LET a == crc.algorithm
       IN  crc' = CRC_new(host, a.endian, a.poly, a.init, a.refin, a.refout, a.xorout)
    /\ out' = Constructed("new", crc.algorithm)
    /\ start' = crc'.value
    /\ fed' = << >>
    /\ UNCHANGED host

Initialize ==
    /\ crc' = CRC_initialize(crc)
    /\ out' = Call("initialize", << >>, << >>)
    /\ start' = crc'.value
    /\ fed' = << >>
    /\ UNCHANGED host

CalcBytes ==
    \E bytes \in Chunks :
        /\ Len(fed) + Len(bytes) <= MaxFed
        /\ crc' = CRC_calc_bytes(crc, bytes)
        /\ out' = Call("calc_bytes", bytes, << >>)
        /\ fed' = fed \o bytes
        /\ UNCHANGED <<host, start>>

OptionalReflection ==
    /\ Len(fed) <= MaxFed
    /\ out' = Call("optional_reflection", << >>, CRC_optional_reflection(crc))
    /\ UNCHANGED <<host, crc, start, fed>>

Finalize ==
    /\ Len(fed) <= MaxFed
    /\ out' = Call("finalize", << >>, CRC_finalize(crc))
    /\ UNCHANGED <<host, crc, start, fed>>

FinalizeToEndianBytes ==
    /\ Len(fed) <= MaxFed
    /\ out' = Call("finalize_to_endian_bytes", << >>,
                   CRC_finalize_to_endian_bytes(host, crc))
    /\ UNCHANGED <<host, crc, start, fed>>

Checksum(M) ==
    \E bytes \in M :
        \E r \in {CRC_checksum(crc, bytes)} :
            /\ crc' = r[1]
            /\ out' = Call("checksum", bytes, r[2])
            /\ start' = initialize(crc.algorithm.init, crc.algorithm.refin)
            /\ fed' = bytes
            /\ UNCHANGED host

ChecksumToEndianBytes(M) ==
    \E bytes \in M :
        \E r \in {CRC_checksum_to_endian_bytes(host, crc, bytes)} :
            /\ crc' = r[1]
            /\ out' = Call("checksum_to_endian_bytes", bytes, r[2])
            /\ start' = initialize(crc.algorithm.init, crc.algorithm.refin)
            /\ fed' = bytes
            /\ UNCHANGED host

IsErrorFree ==
    /\ Len(fed) <= MaxFed
    /\ out' = Call("is_error_free", << >>, CRC_is_error_free(crc))
    /\ UNCHANGED <<host, crc, start, fed>>

IsErrorFreeBytes(M) ==
    \E bytes \in M :
        \E r \in {CRC_is_error_free_bytes(crc, bytes)} :
            /\ crc' = r[1]
            /\ out' = Call("is_error_free_bytes", bytes, r[2])
            /\ start' = initialize(crc.algorithm.init, crc.algorithm.refin)
            /\ fed' = bytes
            /\ UNCHANGED host

\* is_error_free_bytes on the message just given to checksum_to_endian_bytes
\* followed by the bytes that call returned.
IsErrorFreeFrame ==
    /\ out.op = "checksum_to_endian_bytes"
    /\ \E bytes \in {out.arg \o out.ret} :
          \E r \in {CRC_is_error_free_bytes(crc, bytes)} :
              /\ crc' = r[1]
              /\ out' = Called(crc, "is_error_free_bytes", bytes, r[2], "exact", out.arg)
              /\ start' = initialize(crc.algorithm.init, crc.algorithm.refin)
              /\ fed' = bytes
    /\ UNCHANGED host

\* is_error_free_bytes on the same bytes with one bit flipped.
IsErrorFreeFlipped ==
    /\ out.op = "checksum_to_endian_bytes"
    /\ \E k \in 1..(8 * (Len(out.arg) + Len(out.ret))) :
          \E bytes \in {FlipBit(out.arg \o out.ret, k)} :
              \E r \in {CRC_is_error_free_bytes(crc, bytes)} :
                  /\ crc' = r[1]
                  /\ out' = Called(crc, "is_error_free_bytes", bytes, r[2], "flipped",
                                    out.arg)
                  /\ start' = initialize(crc.algorithm.init, crc.algorithm.refin)
                  /\ fed' = bytes
    /\ UNCHANGED host

Next ==
    \/ FromAlgorithm
    \/ New
    \/ Initialize
    \/ CalcBytes
    \/ OptionalReflection
    \/ Finalize
    \/ FinalizeToEndianBytes
    \/ Checksum(Messages)
    \/ ChecksumToEndianBytes(Messages)
    \/ IsErrorFree
    \/ IsErrorFreeBytes(Messages)
    \/ IsErrorFreeFrame

\* Engines of CRC::<u16>::new over the parameter sets.
Spec == Init /\ [][Next]_vars

\* The engines of the tests: CRC::<u32>::from_algorithm on each constant.
InitPreset ==
    /\ host \in {"Big", "Little"}
    /\ \E algorithm \in Presets :
          /\ algorithm.endian # "Native" => host = "Little"
          /\ crc = CRC_from_algorithm(algorithm)
          /\ out = Constructed("from_algorithm", algorithm)
    /\ start = crc.value
    /\ fed = << >>

NextPreset ==
    \/ New
    \/ Initialize
    \/ CalcBytes
    \/ OptionalReflection
    \/ Finalize
    \/ FinalizeToEndianBytes
    \/ Checksum(Messages \cup {CHECK_BYTES})
    \/ ChecksumToEndianBytes(Messages \cup {CHECK_BYTES})
    \/ IsErrorFree
    \/ IsErrorFreeBytes(Messages)
    \/ IsErrorFreeFrame
    \/ IsErrorFreeFlipped

SpecPreset == InitPreset /\ [][NextPreset]_vars

(***************************************************************************)
(* Properties.                                                             *)
(***************************************************************************)

\* The six parameters of an Algorithm given to Algorithm::new on target h.
Derive(h, a) == Algorithm_new(h, a.endian, a.poly, a.init, a.refin, a.refout, a.xorout)

\* The engine's Algorithm is the one CRC::new derives from its six parameters:
\* the engine is one CRC::new builds.
BuiltByNew == crc.algorithm = Derive(host, crc.algorithm)[1]

\* C1. Residue round trip: on an engine built by CRC::new, is_error_free_bytes
\* returns true on a message followed by the bytes checksum_to_endian_bytes
\* returned for that message.
C1_ResidueRoundTrip ==
    (BuiltByNew /\ out.op = "is_error_free_bytes" /\ out.frame = "exact")
        => out.ret = TRUE

\* The register after folding, from the initialized register, the bytes of
\* the empty message's checksum serialized with `endian`.
EmptyChecksumFolded(h, a, endian, table) ==
    LET init_value == initialize(a.init, a.refin)
    IN  calc_bytes_with_values(
            a.refin, init_value,
            finalize_to_endian_bytes(h, endian, a.refin, a.refout, a.xorout, init_value),
            table)

\* C2. Residue derivation: the residue CRC::new stores is the optional
\* reflection of the register obtained by folding the empty message's
\* checksum, serialized with the algorithm's own endian, from the initialized
\* register; and is_error_free_bytes accepts the checksum of the empty message.
C2_ResidueDerivation ==
    BuiltByNew =>
        /\ crc.algorithm.residue =
              optional_reflection(
                  crc.algorithm.refin, crc.algorithm.refout,
                  EmptyChecksumFolded(host, crc.algorithm, crc.algorithm.endian, crc.table))
        /\ (out.op = "is_error_free_bytes" /\ out.frame = "exact" /\ out.msg = << >>)
              => out.ret = TRUE

\* C3. Streaming equivalence: the register after any run of calc_bytes calls
\* is the register one calc_bytes call on the concatenation of their slices
\* leaves, from the register the run started with; an empty slice changes
\* nothing.
C3_StreamingEquivalence ==
    crc.value = calc_bytes_with_values(crc.algorithm.refin, start, fed, crc.table)

C3_Witness ==
    /\ out.op = "calc_bytes"
    /\ Len(out.arg) >= 1
    /\ Len(fed) > Len(out.arg)
    /\ crc.value # start

\* C4. Known answers: an engine made by from_algorithm from a constant of
\* tests::check returns the constant's check value from checksum(b"123456789").
C4_KnownAnswers ==
    \A a \in check_algos :
        (/\ crc.algorithm = a[1]
         /\ out.op = "checksum"
         /\ out.arg = CHECK_BYTES)
            => out.ret = a[2]

C4_Witness ==
    /\ crc.algorithm = CRC_32_ISO_HDLC
    /\ out.op = "checksum"
    /\ out.arg = CHECK_BYTES
    /\ out.ret = WordOf(<<\hcb, \hf4, \h39, \h26>>)

\* C5. Construction equivalence: from_algorithm on the Algorithm CRC::new
\* derived makes the engine CRC::new made: same algorithm, register and table.
C5_ConstructionEquivalence ==
    (out.op = "from_algorithm" /\ out.arg = Derive(host, out.arg)[1])
        => crc = CRC_new(host, out.arg.endian, out.arg.poly, out.arg.init,
                         out.arg.refin, out.arg.refout, out.arg.xorout)

C5_Witness ==
    /\ out.op = "from_algorithm"
    /\ out.arg = Derive(host, out.arg)[1]
    /\ crc.algorithm.refin
    /\ crc.value # crc.algorithm.init

\* C6. Derived residue: CRC::new on the six parameters of a constant of
\* tests::residue derives that constant, residue included.
C6_DerivedResidue ==
    \A a \in residue_algos :
        (out.op = "new" /\ out.arg = a[1]) => crc.algorithm = a[1]

C6_Witness ==
    /\ out.op = "new"
    /\ out.arg = CRC_32_ISO_HDLC
    /\ crc.algorithm.residue = WordOf(<<\hde, \hbb, \h20, \he3>>)

\* value << 1, the top bit of value, and (byte as $t) << (width - 8).
Shl1(v) ==
    LET n == Len(v)
    IN  SubSeq([i \in 1..n |->
                 ((v[i] % 32768) * 2) + (IF i < n THEN v[i + 1] \div 32768 ELSE 0)],
               1, n)

TopBit(v) == v[1] \div 32768

ByteAtTop(n, b) == SubSeq([i \in 1..n |-> IF i = 1 THEN 256 * b ELSE 0], 1, n)

\* The remainder of one byte, bit by bit: most significant bit first against
\* poly, or least significant bit first against poly reversed.
RECURSIVE RemainderMsbFirst(_, _, _)
RemainderMsbFirst(poly, value, steps) ==
    IF steps = 0 THEN value
    ELSE RemainderMsbFirst(
             poly,
             IF TopBit(value) = 1 THEN Xor(Shl1(value), poly) ELSE Shl1(value),
             steps - 1)

RECURSIVE RemainderLsbFirst(_, _, _)
RemainderLsbFirst(reversed, value, steps) ==
    IF steps = 0 THEN value
    ELSE RemainderLsbFirst(
             reversed,
             IF LowBit(value) = 1 THEN Xor(Shr1(value), reversed) ELSE Shr1(value),
             steps - 1)

BitwiseRemainder(poly, refin, b) ==
    IF refin
    THEN RemainderLsbFirst(reverse_bits(poly), ByteAs(Len(poly), b), 8)
    ELSE RemainderMsbFirst(poly, ByteAtTop(Len(poly), b), 8)

\* C7. Table correctness: every entry of the table a constructor made is the
\* bit-by-bit remainder of its index, which depends on poly and refin only;
\* the tables for the CRC-32C and the CRC-32/BZIP2 parameters are those of
\* the tests.
C7_TableCorrectness ==
    Fresh =>
        /\ \A b \in 0..255 :
              crc.table[b] = BitwiseRemainder(crc.algorithm.poly, crc.algorithm.refin, b)
        /\ (crc.algorithm.poly = CRC_32_ISCSI.poly /\ crc.algorithm.refin)
              => \A i \in 0..255 : crc.table[i] = crc32c_table[i + 1]
        /\ (crc.algorithm.poly = CRC_32_BZIP2.poly /\ ~crc.algorithm.refin)
              => \A i \in 0..255 : crc.table[i] = crc32_table[i + 1]

C7_Witness ==
    /\ Fresh
    /\ crc.algorithm = CRC_32_BZIP2
    /\ crc.table[255] = WordOf(<<\hb1, \hf7, \h40, \hb4>>)

\* C8. One-shot calls start clean: whatever the register held, checksum,
\* checksum_to_endian_bytes and is_error_free_bytes return what they return
\* on an engine just made from the same Algorithm.
C8_OneShotStartsClean ==
    /\ out.op = "checksum"
          => out.ret = CRC_checksum(CRC_from_algorithm(crc.algorithm), out.arg)[2]
    /\ out.op = "checksum_to_endian_bytes"
          => out.ret = CRC_checksum_to_endian_bytes(
                           host, CRC_from_algorithm(crc.algorithm), out.arg)[2]
    /\ out.op = "is_error_free_bytes"
          => out.ret = CRC_is_error_free_bytes(
                           CRC_from_algorithm(crc.algorithm), out.arg)[2]

C8_Witness ==
    /\ out.op = "checksum"
    /\ out.dirty
    /\ out.arg # << >>

\* C9. Error detection: on an engine of a constant of tests::residue,
\* is_error_free_bytes returns true on a message followed by its checksum
\* bytes and false on those bytes with any one bit flipped.
C9_ErrorDetection ==
    \A a \in residue_algos :
        (crc.algorithm = a[1] /\ out.op = "is_error_free_bytes")
            => /\ out.frame = "exact" => out.ret = TRUE
               /\ out.frame = "flipped" => out.ret = FALSE

C9_Witness ==
    /\ crc.algorithm = CRC_32_BZIP2
    /\ out.op = "is_error_free_bytes"
    /\ out.frame = "flipped"
    /\ out.msg = CHECK_BYTES
    /\ out.ret = FALSE

\* C10. Unchecked construction: from_algorithm keeps the Algorithm it is given,
\* residue included, and makes the register and the table from init, refin
\* and poly; checksum is what the engine CRC::new derives returns, whatever
\* the residue; is_error_free compares with the residue that was given.
C10_UncheckedConstruction ==
    /\ out.op = "from_algorithm"
          => crc = [algorithm |-> out.arg,
                    value |-> initialize(out.arg.init, out.arg.refin),
                    table |-> create_table(out.arg.poly, out.arg.refin)]
    /\ out.op = "checksum"
          => out.ret =
                CRC_checksum(
                    CRC_new(host, crc.algorithm.endian, crc.algorithm.poly,
                            crc.algorithm.init, crc.algorithm.refin,
                            crc.algorithm.refout, crc.algorithm.xorout),
                    out.arg)[2]
    /\ out.op \in {"is_error_free", "is_error_free_bytes"}
          => out.ret =
                (optional_reflection(crc.algorithm.refin, crc.algorithm.refout, crc.value)
                    = crc.algorithm.residue)

\* An engine with an asserted residue rejects a message followed by its own
\* checksum, which the engine with the derived residue accepts.
C10_Witness ==
    /\ ~BuiltByNew
    /\ out.op = "is_error_free_bytes"
    /\ out.frame = "exact"
    /\ out.ret = FALSE
    /\ CRC_is_error_free_bytes(
           [crc EXCEPT !.algorithm = Derive(host, crc.algorithm)[1]], out.arg)[2]

\* The methods whose bodies assign no field (three take `&self`;
\* is_error_free takes `&mut self` and only reads), and those that assign
\* self.value, directly or through initialize and calc_bytes.
ReadOnlyMethods ==
    {"optional_reflection", "finalize", "finalize_to_endian_bytes", "is_error_free"}

MutatingMethods ==
    {"initialize", "calc_bytes", "checksum", "checksum_to_endian_bytes",
     "is_error_free_bytes"}

\* C11. Frame: finalize, finalize_to_endian_bytes, optional_reflection and
\* is_error_free leave the algorithm, the table and the register as they
\* were, so that what finalize returns is the finalized fold of the bytes
\* given to calc_bytes alone, whatever read-only calls came in between;
\* initialize, calc_bytes, checksum, checksum_to_endian_bytes and
\* is_error_free_bytes change the register only, never the algorithm or the
\* table.
C11_Frame ==
    [][/\ out'.op \in ReadOnlyMethods => crc' = crc
       /\ out'.op \in MutatingMethods
             => /\ crc'.algorithm = crc.algorithm
                /\ crc'.table = crc.table
       /\ out'.op = "finalize"
             => out'.ret =
                   finalize(crc.algorithm.refin, crc.algorithm.refout,
                            crc.algorithm.xorout,
                            calc_bytes_with_values(crc.algorithm.refin, start', fed',
                                                   crc.table))]_vars

\* A read-only call made in the middle of a stream, on an engine whose
\* residue was asserted, with the register away from its initialized value.
C11_Witness ==
    /\ out.op = "is_error_free"
    /\ out.dirty
    /\ ~BuiltByNew
    /\ Len(fed) >= 1
    /\ Len(fed) < MaxFed

\* The bit-at-a-time CRC of the catalogues: the register starts at init; each
\* byte, bit-reversed iff refin, is XORed into the top of the register, which
\* then takes eight most-significant-bit-first steps against poly; the last
\* register is bit-reversed iff refout and XORed with xorout.
RECURSIVE ReferenceRegister(_, _, _, _)
ReferenceRegister(poly, refin, register, bytes) ==
    IF bytes = << >> THEN register
    ELSE LET byte == IF refin THEN Rev8[Head(bytes)] ELSE Head(bytes)
             fed_in == Xor(register, ByteAtTop(Len(poly), byte))
         IN  ReferenceRegister(poly, refin, RemainderMsbFirst(poly, fed_in, 8),
                               Tail(bytes))

ReferenceCrc(a, bytes) ==
    LET register == ReferenceRegister(a.poly, a.refin, a.init, bytes)
    IN  Xor(IF a.refout THEN reverse_bits(register) ELSE register, a.xorout)

====
